---- MODULE Spec2Model ----
(***************************************************************************)
(* A model of the Slack bridge in src/agent/slack-app/slack_bot.py:        *)
(* the SlackBot session controller (start / stop / background connect),    *)
(* the Socket Mode request handler with its duplicate filter, the command  *)
(* parser, the delegation to the browser agent and the reply dispatcher.   *)
(*                                                                         *)
(* Python strings are sequences of tokens: one-character strings where the *)
(* code looks at characters (the message text, the prefix), longer         *)
(* literals where it only concatenates (the fixed parts of the replies).   *)
(* Every handler invocation is an asyncio task: the code between two       *)
(* awaits is one atomic action, and invocations interleave at the awaits.  *)
(***************************************************************************)
EXTENDS Integers, Sequences, FiniteSets, TLC

VARIABLES
    command_prefix,    \* self.command_prefix
    ack,               \* self.ack
    processed_events,  \* self.processed_events
    running,           \* self.running
    listeners,         \* len(socket_client.socket_mode_request_listeners)
    connect_tasks,     \* _start_socket_mode tasks created and not yet finished
    connected,         \* the transport connection is open
    stop_pc,           \* position of the stop() coroutine
    inv,               \* the handler invocations, one record per slot
    dispatched,        \* history: _handle_command calls per event id
    created,           \* the Browser and the Agent objects constructed so far
    in_flight_at_stop, \* history: the invocations whose run_agent call was
                       \* in flight during the whole of the last stop() and
                       \* whose result send has not returned yet
    parse_in,          \* input of the parser check (text)
    parse_out          \* result of the parser check

vars == <<command_prefix, ack, processed_events, running, listeners,
          connect_tasks, connected, stop_pc, inv, dispatched,
          in_flight_at_stop, created, parse_in, parse_out>>

\* ------------------------------------------------------------------ bounds

\* start() is called at most this many times
MaxStarts == 2

\* ----------------------------------------------------------------- strings

\* Python's None, and a missing dictionary key
None == "None"

\* the default of the command_prefix parameter
DefaultPrefix == <<"$", "b", "u">>

\* str.isspace() characters that str.strip() removes
Whitespace == {" ", "\t", "\n"}

\* str.lower() on one character
LowerChar(c) ==
    CASE c = "H" -> "h"
      [] c = "E" -> "e"
      [] c = "L" -> "l"
      [] c = "P" -> "p"
      [] c = "B" -> "b"
      [] c = "U" -> "u"
      [] c = "G" -> "g"
      [] c = "O" -> "o"
      [] OTHER -> c

\* str.lower()
Lower(s) == [i \in 1..Len(s) |-> LowerChar(s[i])]

\* str.startswith(p)
StartsWith(s, p) == Len(s) >= Len(p) /\ SubSeq(s, 1, Len(p)) = p

RECURSIVE LStrip(_)
\* str.lstrip()
LStrip(s) ==
    IF s # <<>> /\ Head(s) \in Whitespace THEN LStrip(Tail(s)) ELSE s

RECURSIVE RStrip(_)
\* str.rstrip()
RStrip(s) ==
    IF s # <<>> /\ s[Len(s)] \in Whitespace
    THEN RStrip(SubSeq(s, 1, Len(s) - 1))
    ELSE s

\* str.strip()
Strip(s) == RStrip(LStrip(s))

\* ------------------------------------------------------------------ parser

\* a command test that wants a task after the prefix
IsCommandWithTask(text, prefix) ==
    /\ text # <<>>
    /\ StartsWith(text, prefix \o <<" ">>)
    /\ Strip(SubSeq(text, Len(prefix) + 2, Len(text))) # <<>>

\* text and text.startswith(f"{self.command_prefix} ")
IsCommand(text, prefix) ==
    text # <<>> /\ StartsWith(text, prefix \o <<" ">>)

\* task = text[len(self.command_prefix) + 1:].strip()
CommandTask(text, prefix) ==
    Strip(SubSeq(text, Len(prefix) + 2, Len(text)))

\* the list in: task.lower() in ["help", "--help", "-h"]
HelpWords ==
    { <<"h", "e", "l", "p">>,
      <<"-", "-", "h", "e", "l", "p">>,
      <<"-", "h">> }

\* a comparison with the help words that minds the case
IsHelpCaseSensitive(task) == task \in HelpWords

\* task.lower() in ["help", "--help", "-h"]
IsHelp(task) == Lower(task) \in HelpWords

\* The command in a message text: none when the test of _handle_event for
\* the prefix fails; otherwise the task of _handle_command, which is the help
\* request or the task to run
Classify(text, prefix) ==
    IF ~IsCommand(text, prefix)
    THEN [kind |-> "Ignore", task |-> <<>>]
    ELSE IF IsHelp(CommandTask(text, prefix))
         THEN [kind |-> "Help", task |-> CommandTask(text, prefix)]
         ELSE [kind |-> "Task", task |-> CommandTask(text, prefix)]

\* ---------------------------------------------------------------- replies

\* the user id inside a mention, f"<@{user_id}>"
Mention(user_id) == <<"<@", user_id, ">">>

\* help_text of _handle_command (its backquotes and bullet characters are
\* left out of the literals)
HelpMessage(prefix) ==
    <<"*Browser Use Slack Bot*\n\nUse ">> \o prefix
    \o <<" <task> to run a browser task.\n\nExamples:\n">> \o prefix
    \o <<" Compare the price of gpt-4o and DeepSeek-V3\n">> \o prefix
    \o <<" Find the latest news about AI on techcrunch.com\n">> \o prefix
    \o <<" Search for job openings at OpenAI and summarize the requirements">>

\* f"<@{user_id}> I'm working on: *{task}*\nThis may take a few minutes..."
WorkingMessage(user_id, task) ==
    Mention(user_id) \o <<" I'm working on: *">> \o task
    \o <<"*\nThis may take a few minutes...">>

\* f"<@{user_id}> Task completed:\n\n{agent_message}"
ResultMessage(user_id, agent_message) ==
    Mention(user_id) \o <<" Task completed:\n\n">> \o agent_message

\* f"Error during task execution: {str(e)}"
ErrorText(e) == <<"Error during task execution: ">> \o e

\* ------------------------------------------------------------------ agent

\* what agent.run() can do: report done with extracted content, report done
\* with extracted_content None, end without reporting done (its last history
\* entry has extracted content all the same), or raise
AgentOutcomes ==
    { [kind |-> "content",    text |-> <<"Top story: X">>],
      [kind |-> "no_content", text |-> <<>>],
      [kind |-> "not_done",   text |-> <<"Partial: Y">>],
      [kind |-> "raise",      text |-> <<"network timeout">>] }

\* agent_message = None
NoMessage == <<None>>

\* result.history[-1].result[0].extracted_content
ExtractedContent(a) == IF a.kind = "no_content" THEN NoMessage ELSE a.text

\* an agent that always counts as done
IsDoneAlways(a) == TRUE

\* result.is_done()
IsDone(a) == a.kind \in {"content", "no_content"}

\* the value run_agent returns
RunAgentResult(a) ==
    IF a.kind = "raise"
    THEN ErrorText(a.text)
    ELSE LET agent_message == IF IsDone(a) THEN ExtractedContent(a)
                              ELSE NoMessage
         IN  IF agent_message = NoMessage
             THEN <<"Task completed, but no specific result was returned.">>
             ELSE agent_message

\* ------------------------------------------------------------- transport

\* how client.send_socket_mode_response can end
AckOutcomes == {"ok", "Exception"}

\* how client.chat_postMessage can end: the message is posted, the API
\* rejects it (SlackApiError), or the call fails otherwise (connection,
\* timeout: any other exception)
SendOutcomes == {"ok", "SlackApiError", "Exception"}

\* str(e) of a send that failed with another exception
SendFailureText == <<"connection reset">>

\* the envelope ids of the requests, and the slots of the handler
\* invocations in flight
Envelopes == {"envelope-1", "envelope-2"}

\* the event of a payload
Event(type, subtype, text, user, channel) ==
    [type |-> type, subtype |-> subtype, text |-> text,
     user |-> user, channel |-> channel, ts |-> "T1"]

\* the requests the transport delivers (type, payload)
Notifications ==
    { \* a task command
      [type |-> "events_api", event_id |-> "E1",
       event |-> Event("message", None, DefaultPrefix \o <<" ", "g", "o">>, "U1", "C1")],
      \* the same text in a message with the bot_message subtype
      [type |-> "events_api", event_id |-> "E1",
       event |-> Event("message", "bot_message", DefaultPrefix \o <<" ", "g", "o">>, "U1", "C1")],
      \* an event that is not a message
      [type |-> "events_api", event_id |-> "E1",
       event |-> Event("reaction_added", None, <<>>, "U1", "C1")],
      \* a help command
      [type |-> "events_api", event_id |-> "E2",
       event |-> Event("message", None, DefaultPrefix \o <<" ", "H", "e", "l", "p">>, "U1", "C1")],
      \* a help command posted by the bot user itself, without a subtype
      [type |-> "events_api", event_id |-> "E2",
       event |-> Event("message", None, DefaultPrefix \o <<" ", "-", "h">>, "UBOT", "C1")],
      \* a command without a sender
      [type |-> "events_api", event_id |-> "E2",
       event |-> Event("message", None, DefaultPrefix \o <<" ", "g", "o">>, None, "C1")],
      \* a command without a channel
      [type |-> "events_api", event_id |-> "E2",
       event |-> Event("message", None, DefaultPrefix \o <<" ", "g", "o">>, "U1", None)],
      \* a message that is no command
      [type |-> "events_api", event_id |-> "E2",
       event |-> Event("message", None, <<"h", "i">>, "U1", "C1")],
      \* a task command in a payload without an event id
      [type |-> "events_api", event_id |-> "",
       event |-> Event("message", None, DefaultPrefix \o <<" ", "g", "o">>, "U1", "C1")],
      \* a request that is not an Events API request
      [type |-> "slash_commands", event_id |-> "",
       event |-> Event(None, None, <<>>, None, None)] }

\* the event ids the transport uses
EventIds == {n.event_id : n \in Notifications} \ {""}

\* one entry of an invocation's trace: a call it made, with its argument
Op(op, arg) ==
    [op |-> op, arg |-> arg, channel |-> None, thread_ts |-> None]

\* the trace entry of client.chat_postMessage(channel, text, thread_ts)
PostMessage(op, channel, text, thread_ts) ==
    [op |-> op, arg |-> text, channel |-> channel, thread_ts |-> thread_ts]

\* a browser taken from a pool of one
PooledBrowser(browsers) == 1

\* browser = Browser(config=self.browser_config): a new object, numbered
\* after the browsers constructed before it
FreshBrowser(browsers) == browsers + 1

\* the objects of one run_agent call, which are its local variables: the
\* browser it constructs, the agent it constructs, and the browser that it
\* hands to that agent
NewRun(c) ==
    [browser |-> FreshBrowser(c.browsers),
     agent |-> c.agents + 1,
     agent_browser |-> FreshBrowser(c.browsers)]

\* an invocation that has not called run_agent
NoRun == [browser |-> 0, agent |-> 0, agent_browser |-> 0]

\* the count of the objects after one more run_agent call
Constructed(c) == [browsers |-> c.browsers + 1, agents |-> c.agents + 1]

\* a handler slot with no invocation. An invocation holds the envelope id of
\* its request (request.envelope_id), the request (type, payload), the
\* calls it has made so far in order (trace), how the call it awaited last
\* ended (last_out), the lines its latest step logged (logged) and the
\* agent_message of _handle_command, and the objects of its run_agent call
\* (run)
Idle == [pc |-> "idle", envelope |-> "",
         req |-> [type |-> None, event_id |-> "",
                  event |-> Event(None, None, <<>>, None, None)],
         trace |-> <<>>, last_out |-> "", logged |-> <<>>,
         agent_message |-> <<>>, run |-> NoRun]

\* ------------------------------------------------------------------- state

\* SlackBot.__init__: the prefix and the ack flag are parameters, the set of
\* processed events is empty, the bot is not running; nothing is registered
\* or connected, no request is in flight
Init ==
    /\ command_prefix = DefaultPrefix
    /\ ack \in BOOLEAN
    /\ processed_events = {}
    /\ running = FALSE
    /\ listeners = 0
    /\ connect_tasks = 0
    /\ connected = FALSE
    /\ stop_pc = "idle"
    /\ inv = [e \in Envelopes |-> Idle]
    /\ dispatched = [id \in EventIds |-> 0]
    /\ in_flight_at_stop = {}
    /\ created = [browsers |-> 0, agents |-> 0]
    /\ parse_in = <<>>
    /\ parse_out = [pc |-> "none", trace |-> <<>>]

\* ---------------------------------------------------------------- lifecycle

\* SlackBot.start: append the handler to the listeners, set running, create
\* the task that connects
Start ==
    /\ listeners < MaxStarts
    /\ listeners' = listeners + 1
    /\ running' = TRUE
    /\ connect_tasks' = connect_tasks + 1
    /\ UNCHANGED <<command_prefix, ack, created, processed_events, connected, stop_pc,
                   inv, dispatched, in_flight_at_stop, parse_in, parse_out>>

\* SlackBot._start_socket_mode: the awaited socket_client.connect() returns,
\* the connection is open
StartSocketMode ==
    /\ connect_tasks > 0
    /\ connect_tasks' = connect_tasks - 1
    /\ connected' = TRUE
    /\ UNCHANGED <<command_prefix, ack, created, processed_events, running, listeners,
                   stop_pc, inv, dispatched, in_flight_at_stop, parse_in,
                   parse_out>>

\* SlackBot.stop up to its await: clear running, call disconnect()
Stop ==
    /\ stop_pc \in {"idle", "returned"}
    /\ running' = FALSE
    /\ stop_pc' = "await_disconnect"
    /\ in_flight_at_stop' = {e \in DOMAIN inv : inv[e].pc = "await_agent"}
    /\ UNCHANGED <<command_prefix, ack, created, processed_events, listeners,
                   connect_tasks, connected, inv, dispatched, parse_in,
                   parse_out>>

\* a stop() that cancels the invocations that are running the agent
CancelRuns(invocations) ==
    [e \in DOMAIN invocations |->
       IF invocations[e].pc = "await_agent"
       THEN [invocations[e] EXCEPT !.pc = "done"]
       ELSE invocations[e]]

\* what stop() does to the handler invocations: it has no statement that
\* cancels or awaits them
AfterStop(invocations) == invocations

\* SlackBot.stop after its await: disconnect() has closed the connection that
\* was open, stop() returns
StopReturn ==
    /\ stop_pc = "await_disconnect"
    /\ connected' = FALSE
    /\ stop_pc' = "returned"
    /\ inv' = AfterStop(inv)
    /\ in_flight_at_stop' =
         {e \in in_flight_at_stop : inv[e].pc = "await_agent"}
    /\ UNCHANGED <<command_prefix, ack, created, processed_events, running, listeners,
                   connect_tasks, dispatched, parse_in, parse_out>>

\* ------------------------------------------------------------------ handler

\* the other variables of a step of one invocation
HandlerFrame ==
    UNCHANGED <<command_prefix, ack, created, processed_events, running, listeners,
                connect_tasks, connected, stop_pc, dispatched,
                in_flight_at_stop, parse_in, parse_out>>

\* a transport that calls one listener however many are registered
InvocationsOnce(registered) == 1

\* the number of invocations of _handle_socket_request for one request: the
\* transport calls every entry of socket_mode_request_listeners, and start()
\* appends one entry per call
Invocations(registered) == registered

\* the transport receives the request n in the envelope e and calls the
\* registered listeners with it: each invocation of _handle_socket_request
\* takes a free slot and runs to its first await, the send of the
\* acknowledgment; the invocations may then interleave
Deliver(e, n) ==
    /\ connected
    /\ listeners > 0
    /\ \E S \in SUBSET Envelopes :
         /\ e \in S
         /\ Cardinality(S) = Invocations(listeners)
         /\ \A s \in S : inv[s].pc \in {"idle", "done", "raised"}
         /\ inv' = [s \in Envelopes |->
                      IF s \in S
                      THEN [Idle EXCEPT !.pc = "await_ack",
                                        !.envelope = e,
                                        !.req = [type |-> n.type,
                                                 event_id |-> n.event_id,
                                                 event |-> n.event]]
                      ELSE inv[s]]
    /\ HandlerFrame

\* a test for the event id that every id passes
NoEventIdNever(event_id) == FALSE

\* not event_id
NoEventId(event_id) == event_id = ""

\* an add that forgets the ids added before
AddProcessedOnly(processed, event_id) == {event_id}

\* self.processed_events.add(event_id)
AddProcessed(processed, event_id) == processed \cup {event_id}

\* a duplicate filter whose membership test never finds the id
AlreadyProcessedNever(event_id, processed) == FALSE

\* event_id in self.processed_events
AlreadyProcessed(event_id, processed) == event_id \in processed

\* 'subtype' in event and event['subtype'] == 'bot_message'
IsBotMessage(event) == event.subtype # None /\ event.subtype = "bot_message"

\* an in-progress notice that is sent whatever the flag
SendsNoticeAlways(ackflag) == TRUE

\* if self.ack: the in-progress notice is sent
SendsNotice(ackflag) == ackflag

\* _handle_command up to its first await: the help reply, the in-progress
\* notice, or (ack off) the agent run
HandleCommandStart(c, ackflag) ==
    IF c.kind = "Help"
    THEN [pc |-> "await_help", trace |-> <<>>]
    ELSE IF SendsNotice(ackflag)
         THEN [pc |-> "await_working", trace |-> <<>>]
         ELSE [pc |-> "await_agent", trace |-> <<Op("run_agent", c.task)>>]

\* _handle_event after the duplicate filter, up to the first await
HandleAdmitted(event, prefix, ackflag) ==
    LET c == Classify(event.text, prefix)
    IN  IF event.type # "message"
        THEN [pc |-> "done", trace |-> <<>>, logged |-> <<>>, command |-> FALSE]
        ELSE IF IsBotMessage(event)
        THEN [pc |-> "done", trace |-> <<>>, logged |-> <<>>, command |-> FALSE]
        ELSE IF c.kind # "Ignore" /\ event.user # None /\ event.channel # None
        THEN [pc |-> HandleCommandStart(c, ackflag).pc,
              trace |-> <<Op("command", event.text)>>
                        \o HandleCommandStart(c, ackflag).trace,
              logged |-> <<>>, command |-> TRUE]
        ELSE IF c.kind # "Ignore"
        THEN [pc |-> "done", trace |-> <<>>,
              logged |-> <<"Missing required fields in event">>,
              command |-> FALSE]
        ELSE [pc |-> "done", trace |-> <<>>, logged |-> <<>>, command |-> FALSE]

\* an add that is made only for the events that are dispatched as commands
ConsumesCommands(command) == command

\* whether the id of an event that passed the duplicate filter is added to
\* processed_events: the add comes before the filters for the type, the
\* subtype and the prefix, so it is made whatever they find
Consumes(command) == TRUE

\* _handle_socket_request after the acknowledgment, and _handle_event up to
\* the first await: the request type, the missing id, the duplicate filter
HandleEventBlock(r, processed, prefix, ackflag) ==
    IF r.type # "events_api"
    THEN [pc |-> "done", trace |-> <<>>, logged |-> <<>>,
          admit |-> FALSE, command |-> FALSE]
    ELSE IF NoEventId(r.event_id)
    THEN [pc |-> "done", trace |-> <<>>,
          logged |-> <<"Event ID missing in event data">>,
          admit |-> FALSE, command |-> FALSE]
    ELSE IF AlreadyProcessed(r.event_id, processed)
    THEN [pc |-> "done", trace |-> <<>>,
          logged |-> <<"Event already processed">>,
          admit |-> FALSE, command |-> FALSE]
    ELSE LET a == HandleAdmitted(r.event, prefix, ackflag)
         IN  [pc |-> a.pc,
              trace |-> <<Op("admit", <<r.event_id>>)>> \o a.trace,
              logged |-> a.logged,
              admit |-> Consumes(a.command), command |-> a.command]

\* the acknowledgment sent after the processing of the event
ProcessThenAck(acknowledgment, processing) == processing \o acknowledgment

\* the calls of _handle_socket_request in their order: the acknowledgment,
\* then what the processing of the event does
RequestTrace(acknowledgment, processing) == acknowledgment \o processing

\* _handle_socket_request from the return of the awaited
\* client.send_socket_mode_response(response): its exception leaves the
\* handler; otherwise the event is processed, by _handle_event and
\* _handle_command, up to the next await
HandleSocketRequest(e, o) ==
    /\ inv[e].pc = "await_ack"
    /\ LET r == inv[e].req
           b == HandleEventBlock(r, processed_events, command_prefix, ack)
       IN  IF o # "ok"
           THEN /\ inv' = [inv EXCEPT ![e].pc = "raised",
                                      ![e].trace = <<Op("ack", <<inv[e].envelope>>)>>,
                                      ![e].last_out = o]
                /\ UNCHANGED <<processed_events, dispatched, created>>
           ELSE /\ inv' = [inv EXCEPT
                             ![e].pc = b.pc,
                             ![e].run = IF b.pc = "await_agent"
                                        THEN NewRun(created) ELSE NoRun,
                             ![e].trace = RequestTrace(<<Op("ack", <<inv[e].envelope>>)>>,
                                                       b.trace),
                             ![e].last_out = o,
                             ![e].logged = b.logged]
                /\ processed_events' =
                     IF b.admit THEN AddProcessed(processed_events, r.event_id)
                     ELSE processed_events
                /\ dispatched' =
                     IF b.command
                     THEN [dispatched EXCEPT ![r.event_id] = @ + 1]
                     ELSE dispatched
                /\ created' = IF b.pc = "await_agent"
                              THEN Constructed(created) ELSE created
    /\ UNCHANGED <<command_prefix, ack, running, listeners, connect_tasks,
                   connected, stop_pc, in_flight_at_stop, parse_in, parse_out>>

\* ------------------------------------------------------------ send_message

\* send_message lets the exception of chat_postMessage through unless it is
\* a SlackApiError
SendRaises(o) == o = "Exception"

\* the lines send_message logs: one for a SlackApiError
SendLogs(o) ==
    IF o = "SlackApiError" THEN <<"Error sending message">> ELSE <<>>

\* a help branch without its return: the handling goes on to the notice
AfterHelpFallsThrough == "await_working"

\* where _handle_command is after the send of the help text: it returns
AfterHelp == "done"

\* _handle_command, help: await self.send_message(channel, help_text,
\* thread_ts) and return; an exception leaves _handle_command and is logged
\* by _handle_event
SendHelp(e, o) ==
    /\ inv[e].pc = "await_help"
    /\ LET ev == inv[e].req.event
       IN  inv' = [inv EXCEPT
                 ![e].pc = AfterHelp,
                 ![e].trace = Append(@, PostMessage("send_help", ev.channel,
                                        HelpMessage(command_prefix), ev.ts)),
                 ![e].last_out = o,
                 ![e].logged = SendLogs(o)
                    \o (IF SendRaises(o)
                        THEN <<"Error in handle_event">> ELSE <<>>)]
    /\ HandlerFrame

\* the calls of _handle_command from the in-progress notice to the agent
\* run: the send of the notice, then run_agent(task)
WorkingCalls(ev, task) ==
    <<PostMessage("send_working", ev.channel,
                  WorkingMessage(ev.user, task), ev.ts),
      Op("run_agent", task)>>

\* _handle_command, the in-progress notice: its send returns or raises (the
\* exception is logged by _handle_command), then run_agent is called and
\* runs to its await of agent.run
SendWorking(e, o) ==
    /\ inv[e].pc = "await_working"
    /\ LET ev == inv[e].req.event
           task == Classify(ev.text, command_prefix).task
       IN  inv' = [inv EXCEPT
                 ![e].pc = "await_agent",
                 ![e].trace = @ \o WorkingCalls(ev, task),
                 ![e].run = NewRun(created),
                 ![e].last_out = o,
                 ![e].logged = SendLogs(o)
                    \o (IF SendRaises(o)
                        THEN <<"Error sending acknowledgment message">>
                        ELSE <<>>)]
    /\ created' = Constructed(created)
    /\ UNCHANGED <<command_prefix, ack, processed_events, running, listeners,
                   connect_tasks, connected, stop_pc, dispatched,
                   in_flight_at_stop, parse_in, parse_out>>

\* run_agent from the return of agent.run: the message it returns (the
\* exception logged), and _handle_command up to the await of the result send
RunAgent(e, a) ==
    /\ inv[e].pc = "await_agent"
    /\ inv' = [inv EXCEPT
                 ![e].pc = "await_result",
                 ![e].agent_message = RunAgentResult(a),
                 ![e].trace = Append(@, Op("run_agent_return", RunAgentResult(a))),
                 ![e].last_out = a.kind,
                 ![e].logged = IF a.kind = "raise"
                               THEN <<"Error during task execution">>
                               ELSE <<>>]
    /\ HandlerFrame

\* an except clause that returns without sending the error message
AfterResultReturn(o) == "done"

\* where _handle_command is after the send of the result: returned, or in
\* its except clause at the send of the error message
AfterResult(o) == IF SendRaises(o) THEN "await_error" ELSE "done"

\* _handle_command: await self.send_message(channel, f"<@{user_id}> Task
\* completed:...", thread_ts); its exception goes to the except clause, which
\* logs the error message and sends it
SendResult(e, o) ==
    /\ inv[e].pc = "await_result"
    /\ LET ev == inv[e].req.event
       IN  inv' = [inv EXCEPT
                 ![e].pc = AfterResult(o),
                 ![e].trace = Append(@, PostMessage("send_result", ev.channel,
                                ResultMessage(ev.user, inv[e].agent_message),
                                ev.ts)),
                 ![e].last_out = o,
                 ![e].logged = SendLogs(o)
                    \o (IF SendRaises(o)
                        THEN <<"Error during task execution">> ELSE <<>>)]
    /\ in_flight_at_stop' = in_flight_at_stop \ {e}
    /\ UNCHANGED <<command_prefix, ack, created, processed_events, running, listeners,
                   connect_tasks, connected, stop_pc, dispatched, parse_in,
                   parse_out>>

\* _handle_command, except clause: await self.send_message(channel,
\* error_message, thread_ts); an exception leaves _handle_command and is
\* logged by _handle_event
SendError(e, o) ==
    /\ inv[e].pc = "await_error"
    /\ LET ev == inv[e].req.event
       IN  inv' = [inv EXCEPT
                 ![e].pc = "done",
                 ![e].trace = Append(@, PostMessage("send_error", ev.channel,
                                        ErrorText(SendFailureText), ev.ts)),
                 ![e].last_out = o,
                 ![e].logged = SendLogs(o)
                    \o (IF SendRaises(o)
                        THEN <<"Error in handle_event">> ELSE <<>>)]
    /\ HandlerFrame

\* -------------------------------------------------------------------- spec

Next ==
    \/ Start
    \/ StartSocketMode
    \/ Stop
    \/ StopReturn
    \/ \E e \in Envelopes, n \in Notifications : Deliver(e, n)
    \/ \E e \in Envelopes, o \in AckOutcomes : HandleSocketRequest(e, o)
    \/ \E e \in Envelopes, o \in SendOutcomes : SendHelp(e, o)
    \/ \E e \in Envelopes, o \in SendOutcomes : SendWorking(e, o)
    \/ \E e \in Envelopes, a \in AgentOutcomes : RunAgent(e, a)
    \/ \E e \in Envelopes, o \in SendOutcomes : SendResult(e, o)
    \/ \E e \in Envelopes, o \in SendOutcomes : SendError(e, o)

Spec == Init /\ [][Next]_vars

\* --------------------------------------------------------------- two runs

\* requests with two task commands under different event ids, and a help
\* command
RunNotifications ==
    { [type |-> "events_api", event_id |-> "E1",
       event |-> Event("message", None, DefaultPrefix \o <<" ", "g", "o">>, "U1", "C1")],
      [type |-> "events_api", event_id |-> "E2",
       event |-> Event("message", None, DefaultPrefix \o <<" ", "g", "o">>, "U2", "C1")],
      [type |-> "events_api", event_id |-> "E2",
       event |-> Event("message", None, DefaultPrefix \o <<" ", "H", "e", "l", "p">>, "U1", "C1")] }

RunsNext ==
    \/ Start
    \/ StartSocketMode
    \/ Stop
    \/ StopReturn
    \/ \E e \in Envelopes, n \in RunNotifications : Deliver(e, n)
    \/ \E e \in Envelopes, o \in AckOutcomes : HandleSocketRequest(e, o)
    \/ \E e \in Envelopes, o \in SendOutcomes : SendHelp(e, o)
    \/ \E e \in Envelopes, o \in SendOutcomes : SendWorking(e, o)
    \/ \E e \in Envelopes, a \in AgentOutcomes : RunAgent(e, a)
    \/ \E e \in Envelopes, o \in SendOutcomes : SendResult(e, o)
    \/ \E e \in Envelopes, o \in SendOutcomes : SendError(e, o)

RunsSpec == Init /\ [][RunsNext]_vars

\* ------------------------------------------------------------ parser check

\* the prefixes the parser is checked with
Prefixes == {DefaultPrefix, <<"!">>}

\* the texts the parser is checked with: something before the prefix, a
\* prefix or a near miss, a separator, a body, something after it
Texts ==
    { lead \o p \o sep \o body \o trail :
        lead \in {<<>>, <<" ">>},
        p \in Prefixes \cup {<<"$", "b">>, <<"$", "B", "U">>},
        sep \in {<<>>, <<" ">>, <<" ", " ">>, <<"\t">>},
        body \in { <<>>, <<"h", "e", "l", "p">>, <<"H", "E", "L", "P">>,
                   <<"H", "e", "l", "P">>, <<"-", "-", "h", "e", "l", "p">>,
                   <<"-", "-", "H", "E", "L", "P">>, <<"-", "h">>, <<"-", "H">>,
                   <<"g", "o">>, <<"G", "o">>, <<"h", "e", "l", "p", " ", "g", "o">>,
                   <<"h", "e", "l", "p", "x">>, <<"-", "h", "h">>, <<"g", " ", " ", "o">> },
        trail \in {<<>>, <<" ">>, <<"\n">>, <<" ", "\t">>} }

\* the bot is constructed with a prefix and without the in-progress notice;
\* a text is drawn
ParseInit ==
    /\ command_prefix \in Prefixes
    /\ ack = FALSE
    /\ processed_events = {}
    /\ running = FALSE
    /\ listeners = 0
    /\ connect_tasks = 0
    /\ connected = FALSE
    /\ stop_pc = "idle"
    /\ inv = [e \in Envelopes |-> Idle]
    /\ dispatched = [id \in EventIds |-> 0]
    /\ in_flight_at_stop = {}
    /\ created = [browsers |-> 0, agents |-> 0]
    /\ parse_in \in Texts
    /\ parse_out = [pc |-> "none", trace |-> <<>>]

\* _handle_event on an admitted message of a user in a channel with the
\* drawn text, up to the first await
Parse ==
    /\ parse_out.pc = "none"
    /\ LET b == HandleAdmitted(Event("message", None, parse_in, "U1", "C1"),
                               command_prefix, ack)
       IN  parse_out' = [pc |-> b.pc, trace |-> b.trace]
    /\ UNCHANGED <<command_prefix, ack, created, processed_events, running, listeners,
                   connect_tasks, connected, stop_pc, inv, dispatched,
                   in_flight_at_stop, parse_in>>

ParseSpec == ParseInit /\ [][Parse]_vars

\* ------------------------------------------------------------ notice check

\* the bot is constructed with a prefix, with or without the in-progress
\* notice; a text is drawn
NoticeInit ==
    /\ command_prefix \in Prefixes
    /\ ack \in BOOLEAN
    /\ processed_events = {}
    /\ running = FALSE
    /\ listeners = 0
    /\ connect_tasks = 0
    /\ connected = FALSE
    /\ stop_pc = "idle"
    /\ inv = [e \in Envelopes |-> Idle]
    /\ dispatched = [id \in EventIds |-> 0]
    /\ in_flight_at_stop = {}
    /\ created = [browsers |-> 0, agents |-> 0]
    /\ parse_in \in Texts
    /\ parse_out = [pc |-> "none", trace |-> <<>>]

\* _handle_command from the return of the send of the in-progress notice,
\* however it ended, to the await in run_agent
ParseNotice ==
    /\ parse_out.pc = "await_working"
    /\ LET ev == Event("message", None, parse_in, "U1", "C1")
           task == Classify(ev.text, command_prefix).task
       IN  parse_out' = [pc |-> "await_agent",
                         trace |-> parse_out.trace \o WorkingCalls(ev, task)]
    /\ UNCHANGED <<command_prefix, ack, created, processed_events, running, listeners,
                   connect_tasks, connected, stop_pc, inv, dispatched,
                   in_flight_at_stop, parse_in>>

NoticeNext ==
    \/ Parse
    \/ ParseNotice

NoticeSpec == NoticeInit /\ [][NoticeNext]_vars

\* ------------------------------------------------------------------ claims

\* the number of calls op in the trace of the invocation of envelope e
Count(e, op) ==
    Cardinality({i \in DOMAIN inv[e].trace : inv[e].trace[i].op = op})

\* the positions of the calls op in the trace of the invocation of e
Positions(e, op) == {i \in DOMAIN inv[e].trace : inv[e].trace[i].op = op}

\* the last call of the invocation of e
LastCall(e) == inv[e].trace[Len(inv[e].trace)]

\* the invocation of e has returned (or was left by an exception)
Finished(e) == inv[e].pc \in {"done", "raised"}

\* t occurs in s
Contains(s, t) ==
    \E i \in 0..(Len(s) - Len(t)) : SubSeq(s, i + 1, i + Len(t)) = t

\* text is the prefix, one space, and a remainder
HasPrefixAndSpace(text, prefix) ==
    \E k \in 0..Len(text) :
        /\ k = Len(prefix) + 1
        /\ \A i \in 1..Len(prefix) : text[i] = prefix[i]
        /\ text[k] = " "

\* what follows the prefix and the space
Remainder(text, prefix) ==
    [i \in 1..(Len(text) - Len(prefix) - 1) |-> text[i + Len(prefix) + 1]]

\* t is r without its leading and trailing whitespace
IsTrimOf(t, r) ==
    \E i \in 0..Len(r), j \in 0..Len(r) :
        /\ i + Len(t) + j = Len(r)
        /\ \A k \in 1..i : r[k] \in Whitespace
        /\ \A k \in 1..j : r[Len(r) + 1 - k] \in Whitespace
        /\ \A k \in 1..Len(t) : t[k] = r[i + k]
        /\ t # <<>> => (t[1] \notin Whitespace /\ t[Len(t)] \notin Whitespace)

\* r without its leading and trailing whitespace (a set of one sequence)
Trims(r) ==
    {t \in {SubSeq(r, i, j) : i \in 1..(Len(r) + 1), j \in 0..Len(r)} :
        IsTrimOf(t, r)}

\* the two cases of each letter of the help words
Cases ==
    { {"h", "H"}, {"e", "E"}, {"l", "L"}, {"p", "P"}, {"-"} }

\* t is w up to the case of its letters
EqualIgnoringCase(t, w) ==
    /\ Len(t) = Len(w)
    /\ \A i \in 1..Len(w) : \E c \in Cases : {t[i], w[i]} \subseteq c

\* t asks for help
IsHelpRequest(t) ==
    \/ EqualIgnoringCase(t, <<"h", "e", "l", "p">>)
    \/ EqualIgnoringCase(t, <<"-", "-", "h", "e", "l", "p">>)
    \/ EqualIgnoringCase(t, <<"-", "h">>)

\* the request of envelope e carries a task command that the handler is to
\* run: an Events API message, no bot_message subtype, sender and channel
\* present, the prefix and a space, and no help request after them
IsTaskRequest(e) ==
    LET r == inv[e].req
    IN  /\ r.type = "events_api"
        /\ r.event.type = "message"
        /\ r.event.subtype # "bot_message"
        /\ r.event.user # None
        /\ r.event.channel # None
        /\ HasPrefixAndSpace(r.event.text, command_prefix)
        /\ \A t \in Trims(Remainder(r.event.text, command_prefix)) :
               ~IsHelpRequest(t)

\* the duplicate filter admitted the request of envelope e
Admitted(e) == Count(e, "admit") = 1

\* C1: at-most-once processing. Whatever is delivered, redelivered and
\* interleaved, an event id is dispatched to _handle_command at most once
\* over all invocations; an invocation sends at most one in-progress notice
\* and calls run_agent at most once; and the one invocation that was admitted
\* with a task command has, when it ends, called run_agent exactly once and
\* (ack on) sent exactly one in-progress notice, while no other invocation
\* with that id did either.
C1_AtMostOnce ==
    /\ \A id \in EventIds : dispatched[id] <= 1
    /\ \A e \in Envelopes :
        /\ Count(e, "command") <= 1
        /\ Count(e, "run_agent") <= 1
        /\ Count(e, "send_working") <= 1
        /\ ~Admitted(e) =>
              Count(e, "command") + Count(e, "run_agent")
                + Count(e, "send_working") = 0
        /\ (Admitted(e) /\ IsTaskRequest(e) /\ inv[e].pc = "done") =>
              /\ dispatched[inv[e].req.event_id] = 1
              /\ Count(e, "run_agent") = 1
              /\ Count(e, "send_working") = (IF ack THEN 1 ELSE 0)
    /\ \A e1, e2 \in Envelopes :
        (e1 # e2 /\ inv[e1].req.event_id = inv[e2].req.event_id) =>
            Count(e1, "command") + Count(e2, "command") <= 1

\* C1, witness: the task notification was delivered twice with the same id,
\* both invocations have ended, and one of them ran the task
C1_Witness ==
    \E e1, e2 \in Envelopes :
        /\ e1 # e2
        /\ inv[e1].req = inv[e2].req
        /\ IsTaskRequest(e1)
        /\ inv[e1].pc = "done" /\ inv[e2].pc = "done"
        /\ ack
        /\ Count(e1, "run_agent") = 1 /\ Count(e1, "send_working") = 1
        /\ Count(e2, "run_agent") = 0 /\ Count(e2, "send_working") = 0
        /\ inv[e2].logged = <<"Event already processed">>

\* the invocation of e has delivered its final message: its last call is
\* the send of the result or of the error message, to the channel and the
\* thread of the request, and the message was posted
FinalMessageDelivered(e) ==
    /\ inv[e].trace # <<>>
    /\ LastCall(e).op \in {"send_result", "send_error"}
    /\ LastCall(e).channel = inv[e].req.event.channel
    /\ LastCall(e).thread_ts = inv[e].req.event.ts
    /\ inv[e].last_out = "ok"

\* C2 as stated: every recognized task command (a message that reaches the
\* command handling with the prefix and a space, admitted by the duplicate
\* filter) whose handling has ended has its result or error message
\* delivered in the thread.
C2_EveryCommandAnswered ==
    \A e \in Envelopes :
        (inv[e].pc = "done" /\ Admitted(e) /\ IsTaskRequest(e))
        => FinalMessageDelivered(e)

\* C2, amended: a task command that reaches _handle_command (a message
\* without the bot_message subtype, with sender and channel, admitted by the
\* duplicate filter) and whose handling has ended has had the send of its
\* result message attempted in the thread of the request, after run_agent
\* returned; when that send raised, the send of an error message was
\* attempted after it; the last of these sends is the last call of the
\* handling, and the final message is delivered exactly when it succeeded.
C2_FinalSendAttempted ==
    \A e \in Envelopes :
        (inv[e].pc = "done" /\ Admitted(e) /\ IsTaskRequest(e)) =>
            /\ Count(e, "run_agent_return") = 1
            /\ Count(e, "send_result") = 1
            /\ \A i \in Positions(e, "run_agent_return"),
                  j \in Positions(e, "send_result") : i < j
            /\ LastCall(e).op \in {"send_result", "send_error"}
            /\ LastCall(e).channel = inv[e].req.event.channel
            /\ LastCall(e).thread_ts = inv[e].req.event.ts
            /\ LastCall(e).op = "send_result" => inv[e].last_out # "Exception"
            /\ FinalMessageDelivered(e) <=> inv[e].last_out = "ok"

\* C2, witness: a task command has ended after run_agent returned, with the
\* send of its result attempted last and rejected by the API
C2_Witness ==
    \E e \in Envelopes :
        /\ inv[e].pc = "done" /\ Admitted(e) /\ IsTaskRequest(e)
        /\ LastCall(e).op = "send_result"
        /\ inv[e].last_out = "SlackApiError"

\* the user id of the bot itself, the sender of the messages it posts
BotUser == "UBOT"

\* C3: a message with the bot_message subtype, or sent by the bot itself, is
\* discarded before the parser: its invocation never calls _handle_command,
\* sends no reply and runs no agent.
C3_BotMessagesDiscarded ==
    \A e \in Envelopes :
        (inv[e].req.event.subtype = "bot_message"
            \/ inv[e].req.event.user = BotUser)
        => \A i \in DOMAIN inv[e].trace :
               inv[e].trace[i].op \in {"ack", "admit"}

\* the calls that process a request: the admission by the duplicate filter,
\* the command handling, the replies, the delegation
Processing ==
    {"admit", "command", "send_help", "send_working", "run_agent",
     "run_agent_return", "send_result", "send_error"}

\* C4: in every invocation the acknowledgment of its own envelope is the
\* first call, made once and before any admission, parsing, reply or
\* delegation, however the processing ends; while the acknowledgment is
\* awaited nothing has been processed or logged, and when its send raised
\* nothing is.
C4_AckFirst ==
    \A e \in Envelopes :
        LET t == inv[e].trace
        IN  /\ inv[e].pc \in {"idle", "await_ack"} =>
                (t = <<>> /\ inv[e].logged = <<>>)
            /\ inv[e].pc \notin {"idle", "await_ack"} =>
                /\ t # <<>>
                /\ t[1].op = "ack" /\ t[1].arg = <<inv[e].envelope>>
                /\ \A i \in 2..Len(t) : t[i].op \in Processing
            /\ inv[e].pc = "raised" => (Len(t) = 1 /\ inv[e].logged = <<>>)

\* C4, witness: a task whose result send raised has ended with the send of
\* the error message, a duplicate has been dropped, each acknowledged first
C4_Witness ==
    \E e1, e2 \in Envelopes :
        /\ e1 # e2
        /\ inv[e1].pc = "done" /\ inv[e1].trace[1].op = "ack"
        /\ Count(e1, "send_error") = 1
        /\ inv[e2].pc = "done" /\ inv[e2].trace[1].op = "ack"
        /\ inv[e2].logged = <<"Event already processed">>

\* the call the invocation of e awaited last was a reply send, and it failed
ReplyFailed(e) ==
    /\ inv[e].pc # "raised"
    /\ inv[e].last_out \in {"SlackApiError", "Exception"}

\* C5: a reply send that fails (help, in-progress notice, result or error
\* message) is swallowed by send_message: it never aborts the command
\* handling, so the step that saw it fail never logs the line of
\* _handle_event for an exception that left _handle_command.
C5_RepliesBestEffort ==
    \A e \in Envelopes :
        ReplyFailed(e) =>
            \A i \in DOMAIN inv[e].logged :
                inv[e].logged[i] # "Error in handle_event"

\* C6: no exception raised while a notification is handled leaves the
\* handler: every invocation that has ended has returned.
C6_NoExceptionEscapes ==
    \A e \in Envelopes : Finished(e) => inv[e].pc = "done"

\* run_agent of the invocation of e returned the error text of a failure m
AgentFailedWith(e, m) ==
    \E i \in Positions(e, "run_agent_return") :
        inv[e].trace[i].arg = <<"Error during task execution: ">> \o m

\* C7: when the agent run of a task command fails with m, run_agent returns
\* the error text of m, and the final message posted to the thread contains
\* "Error during task execution: m" and starts with the mention of the
\* requesting user.
C7_AgentErrorReported ==
    \A e \in Envelopes, a \in {x \in AgentOutcomes : x.kind = "raise"} :
        ( /\ inv[e].pc = "done"
          /\ IsTaskRequest(e)
          /\ AgentFailedWith(e, a.text)
          /\ FinalMessageDelivered(e) )
        => /\ Contains(LastCall(e).arg,
                       <<"Error during task execution: ">> \o a.text)
           /\ SubSeq(LastCall(e).arg, 1, 3)
                = <<"<@", inv[e].req.event.user, ">">>

\* C8: a text is ignored (no reply, no delegation) exactly when it does not
\* start with the prefix and a space; otherwise it gets the help reply
\* exactly when the remainder, trimmed, is "help", "--help" or "-h" up to
\* case; otherwise run_agent is called with the trimmed remainder, unchanged.
C8_Classification ==
    parse_out.pc # "none" =>
        LET r == Remainder(parse_in, command_prefix)
        IN  /\ (parse_out.pc = "done" /\ parse_out.trace = <<>>)
                <=> ~HasPrefixAndSpace(parse_in, command_prefix)
            /\ HasPrefixAndSpace(parse_in, command_prefix) =>
                /\ parse_out.trace[1].op = "command"
                /\ parse_out.trace[1].arg = parse_in
                /\ parse_out.pc = "await_help"
                      <=> \E t \in Trims(r) : IsHelpRequest(t)
                /\ parse_out.pc = "await_help" => Len(parse_out.trace) = 1
                /\ parse_out.pc # "await_help" =>
                      /\ parse_out.pc = "await_agent"
                      /\ Len(parse_out.trace) = 2
                      /\ parse_out.trace[2].op = "run_agent"
                      /\ IsTrimOf(parse_out.trace[2].arg, r)

\* C8, witness: a help request in mixed case, with whitespace around it, has
\* been classified as help
C8_Witness ==
    /\ parse_out.pc = "await_help"
    /\ parse_in[Len(parse_in)] = "\t"
    /\ \E i \in DOMAIN parse_in : parse_in[i] = "P"
    /\ \E i \in DOMAIN parse_in : parse_in[i] = "e"

\* C9: for a task command, with ack on there is exactly one in-progress
\* notice, sent before run_agent is called and before the result (or error)
\* message, and run_agent is called whether or not that send succeeded; with
\* ack off there is no in-progress notice.
C9_NoticeOrder ==
    \A e \in Envelopes :
        (Admitted(e) /\ IsTaskRequest(e)) =>
            /\ ack =>
                \/ /\ inv[e].pc = "await_working"
                   /\ Count(e, "send_working") = 0
                   /\ Count(e, "run_agent") = 0
                \/ /\ inv[e].pc # "await_working"
                   /\ Count(e, "send_working") = 1
                   /\ Count(e, "run_agent") = 1
                   /\ \A i \in Positions(e, "send_working"),
                         j \in Positions(e, "run_agent")
                               \cup Positions(e, "send_result")
                               \cup Positions(e, "send_error") : i < j
            /\ ~ack =>
                /\ Count(e, "send_working") = 0
                /\ Count(e, "run_agent") = 1
                /\ inv[e].pc # "await_working"

\* C9, witness: the send of the in-progress notice raised, and run_agent has
\* been called after it
C9_Witness ==
    \E e \in Envelopes :
        /\ ack
        /\ Admitted(e) /\ IsTaskRequest(e)
        /\ inv[e].pc = "await_agent"
        /\ inv[e].last_out = "Exception"
        /\ Count(e, "send_working") = 1
        /\ LastCall(e).op = "run_agent"

\* C10: once stop() has returned and the controller is stopped (running is
\* False), the transport connection is closed.
C10_StopClosesConnection ==
    (stop_pc = "returned" /\ ~running) => ~connected


\* the transport connection has been opened: one of the tasks created by
\* start() has finished its connect()
Opened == listeners > connect_tasks

\* C11: in every state where the controller is running (running is True) the
\* handler is registered and the transport connection has been opened.
C11_RunningImpliesOpened ==
    running => (listeners > 0 /\ Opened)


\* the request of envelope e is a message with a command (the prefix and a
\* space) that lacks its sender or its channel
IsCommandWithoutSenderOrChannel(e) ==
    LET r == inv[e].req
    IN  /\ r.type = "events_api"
        /\ r.event.type = "message"
        /\ r.event.subtype # "bot_message"
        /\ HasPrefixAndSpace(r.event.text, command_prefix)
        /\ (r.event.user = None \/ r.event.channel = None)

\* the calls a trace has besides the acknowledgment and the admission
Replies(t) ==
    {i \in DOMAIN t : t[i].op \notin {"ack", "admit"}}

\* C12: the step that handles a notification without an identifier leaves
\* processed_events unchanged, logs the missing id and ends the invocation
\* with no call but the acknowledgment; the step that handles an admitted
\* command without sender or channel logs the missing fields and ends the
\* invocation with no reply and no run_agent call.
C12_MalformedDropped ==
    [][ \A e \in Envelopes :
          (inv[e].pc = "await_ack" /\ inv'[e].pc # "await_ack"
             /\ inv'[e].pc # "raised" /\ inv[e].req.type = "events_api") =>
            /\ inv[e].req.event_id = "" =>
                 /\ processed_events' = processed_events
                 /\ inv'[e].pc = "done"
                 /\ Len(inv'[e].trace) = 1
                 /\ inv'[e].trace[1].op = "ack"
                 /\ inv'[e].logged = <<"Event ID missing in event data">>
            /\ ( /\ inv[e].req.event_id # ""
                 /\ inv[e].req.event_id \notin processed_events
                 /\ IsCommandWithoutSenderOrChannel(e) ) =>
                 /\ inv'[e].pc = "done"
                 /\ Replies(inv'[e].trace) = {}
                 /\ inv'[e].logged = <<"Missing required fields in event">>
      ]_vars

\* C12, witness: a task command without an identifier and a command without
\* a channel have both been dropped and logged
C12_Witness ==
    \E e1, e2 \in Envelopes :
        /\ inv[e1].pc = "done" /\ inv[e1].req.event_id = ""
        /\ inv[e1].req.type = "events_api"
        /\ inv[e1].logged = <<"Event ID missing in event data">>
        /\ inv[e2].pc = "done" /\ IsCommandWithoutSenderOrChannel(e2)
        /\ inv[e2].req.event.channel = None
        /\ inv[e2].logged = <<"Missing required fields in event">>
        /\ processed_events = {inv[e2].req.event_id}


\* C13: processed_events only grows: no step of the bot (the handling of a
\* request, a send that fails, stop(), a later start()) removes an id from
\* it.
C13_SeenSetMonotonic ==
    [][processed_events \subseteq processed_events']_vars

\* C13, witness: both ids are in the set after requests were handled, one of
\* them with a failed reply, stop() has returned and start() has been called
\* again
C13_Witness ==
    /\ processed_events = EventIds
    /\ stop_pc = "returned"
    /\ listeners = 2
    /\ \E e \in Envelopes :
          inv[e].pc = "done" /\ inv[e].last_out = "Exception"


\* the request of envelope e carries a help command: an Events API message,
\* no bot_message subtype, sender and channel present, the prefix and a
\* space, and a help request after them
IsHelpCommand(e) ==
    LET r == inv[e].req
    IN  /\ r.type = "events_api"
        /\ r.event.type = "message"
        /\ r.event.subtype # "bot_message"
        /\ r.event.user # None
        /\ r.event.channel # None
        /\ HasPrefixAndSpace(r.event.text, command_prefix)
        /\ \E t \in Trims(Remainder(r.event.text, command_prefix)) :
               IsHelpRequest(t)

\* the usage message names the prefix four times: in the usage line and in
\* the three examples
IsUsageMessage(text) ==
    /\ text[1] = "*Browser Use Slack Bot*\n\nUse "
    /\ Cardinality({i \in 1..(Len(text) - Len(command_prefix) + 1) :
                      SubSeq(text, i, i + Len(command_prefix) - 1)
                        = command_prefix}) = 4

\* C14: an admitted help command makes no call but the acknowledgment, the
\* admission, the command handling and, once, the send of the usage message
\* to the channel and the thread of the request; when the handling has ended
\* that send has been made. It never sends an in-progress notice, a result
\* or an error message and never calls run_agent.
C14_HelpDispatch ==
    \A e \in Envelopes :
        (Admitted(e) /\ IsHelpCommand(e)) =>
            /\ \A i \in DOMAIN inv[e].trace :
                  inv[e].trace[i].op \in {"ack", "admit", "command", "send_help"}
            /\ Count(e, "send_help") <= 1
            /\ inv[e].pc \in {"await_help", "done"}
            /\ inv[e].pc = "await_help" => Count(e, "send_help") = 0
            /\ inv[e].pc = "done" =>
                  /\ Count(e, "send_help") = 1
                  /\ LastCall(e).op = "send_help"
                  /\ LastCall(e).channel = inv[e].req.event.channel
                  /\ LastCall(e).thread_ts = inv[e].req.event.ts
                  /\ IsUsageMessage(LastCall(e).arg)

\* C14, witness: a help command written in mixed case has ended with its
\* one reply delivered
C14_Witness ==
    \E e \in Envelopes :
        /\ Admitted(e) /\ IsHelpCommand(e)
        /\ inv[e].req.event.user = "U1"
        /\ inv[e].pc = "done"
        /\ inv[e].last_out = "ok"
        /\ Count(e, "send_help") = 1


\* the fields of the invocations that stop() could have touched
InvocationsOf(i) ==
    [e \in Envelopes |-> [pc |-> i[e].pc, trace |-> i[e].trace,
                          agent_message |-> i[e].agent_message]]

\* C15: no step of stop() changes an invocation (none is cancelled, none is
\* waited for: stop() returns whatever the invocations are doing), and a
\* run_agent call that was in flight while stop() ran goes on afterwards: its
\* result is posted by a step taken after stop() has returned and running is
\* False.
C15_NoDrainOnStop ==
    [][ /\ stop_pc = "await_disconnect" => ENABLED StopReturn
        /\ stop_pc' # stop_pc =>
             /\ InvocationsOf(inv') = InvocationsOf(inv)
             /\ stop_pc = "await_disconnect" => stop_pc' = "returned"
        /\ \A e \in in_flight_at_stop :
             /\ inv[e].pc \in {"await_agent", "await_result"}
             /\ (stop_pc = "returned" /\ inv'[e] # inv[e]) =>
                  /\ inv[e].pc = "await_agent" =>
                       /\ inv'[e].pc = "await_result"
                       /\ e \in in_flight_at_stop'
                  /\ inv[e].pc = "await_result" =>
                       /\ Len(inv'[e].trace) = Len(inv[e].trace) + 1
                       /\ inv'[e].trace[Len(inv'[e].trace)].op = "send_result"
      ]_vars

\* C15, witness: run_agent was in flight during the whole of stop(); after
\* stop() returned it has completed, and the send of its result is under way
\* in a stopped controller
C15_Witness ==
    \E e \in in_flight_at_stop :
        /\ stop_pc = "returned"
        /\ ~running
        /\ ~connected
        /\ inv[e].pc = "await_result"
        /\ Count(e, "run_agent_return") = 1


\* the invocations that the step has started
Started(i, j) ==
    {e \in Envelopes : i[e].pc # "await_ack" /\ j[e].pc = "await_ack"}

\* C16: the handler is registered once per call of start(), and a delivered
\* request starts one invocation per registration, all with the same
\* envelope and request (after two calls: two invocations, two
\* acknowledgments of the same envelope). Still no event id is dispatched to
\* _handle_command more than once: the step of an invocation that dispatches
\* the command finds the id absent from processed_events and leaves it
\* present, and no other invocation with that id has dispatched it.
C16_DoubleStartAtMostOnce ==
    [][ /\ Started(inv, inv') # {} =>
             /\ Cardinality(Started(inv, inv')) = listeners
             /\ \A e1, e2 \in Started(inv, inv') :
                   /\ inv'[e1].envelope = inv'[e2].envelope
                   /\ inv'[e1].req = inv'[e2].req
        /\ \A id \in EventIds : dispatched'[id] <= 1
        /\ \A e \in Envelopes :
             (Cardinality({i \in DOMAIN inv'[e].trace :
                             inv'[e].trace[i].op = "command"})
                > Count(e, "command")) =>
                /\ inv[e].req.event_id \notin processed_events
                /\ inv[e].req.event_id \in processed_events'
                /\ inv'[e].trace[1].op = "ack"
                /\ \A e2 \in Envelopes \ {e} :
                     inv'[e2].req.event_id = inv[e].req.event_id =>
                       \A i \in DOMAIN inv'[e2].trace :
                          inv'[e2].trace[i].op # "command"
      ]_vars

\* C16, witness: after two calls of start() one task request has made two
\* invocations; both acknowledged the same envelope, one ran the command and
\* the other found the id processed
C16_Witness ==
    \E e1, e2 \in Envelopes :
        /\ e1 # e2
        /\ listeners = 2
        /\ inv[e1].envelope = inv[e2].envelope
        /\ inv[e1].req = inv[e2].req
        /\ IsTaskRequest(e1)
        /\ inv[e1].pc = "done" /\ inv[e2].pc = "done"
        /\ inv[e1].trace[1] = inv[e2].trace[1]
        /\ inv[e1].trace[1].op = "ack"
        /\ Count(e1, "command") = 1 /\ Count(e1, "run_agent") = 1
        /\ Count(e2, "command") = 0
        /\ inv[e2].logged = <<"Event already processed">>


\* C17: the step in which an invocation handles an Events API request with
\* an id leaves the id in processed_events whatever the event is (not a
\* message, a bot message, no command, a command) and whatever becomes of
\* its handling later; no step removes it; and when the id was there
\* already, whatever the earlier event and its outcome were, the invocation
\* ends at once with nothing admitted, no reply and no run_agent call.
C17_ConsumedOnAdmission ==
    [][ /\ processed_events \subseteq processed_events'
        /\ \A e \in Envelopes :
             ( /\ inv[e].pc = "await_ack"
               /\ inv'[e].pc \notin {"await_ack", "raised"}
               /\ inv[e].req.type = "events_api"
               /\ inv[e].req.event_id # "" ) =>
                /\ inv[e].req.event_id \in processed_events'
                /\ inv[e].req.event_id \in processed_events =>
                     /\ inv'[e].pc = "done"
                     /\ Len(inv'[e].trace) = 1
                     /\ inv'[e].logged = <<"Event already processed">>
                /\ inv[e].req.event_id \notin processed_events =>
                     /\ Len(inv'[e].trace) >= 2
                     /\ inv'[e].trace[2].op = "admit"
      ]_vars

\* C17, witness: an event that is not a message was admitted and dropped,
\* and the task command that came later with the same id was rejected
C17_Witness ==
    \E e1, e2 \in Envelopes :
        /\ inv[e1].req.event_id = inv[e2].req.event_id
        /\ inv[e1].req.event.type = "reaction_added"
        /\ Admitted(e1) /\ inv[e1].pc = "done" /\ Replies(inv[e1].trace) = {}
        /\ IsTaskRequest(e2)
        /\ inv[e2].pc = "done"
        /\ Len(inv[e2].trace) = 1
        /\ inv[e2].logged = <<"Event already processed">>


\* text is the prefix, a space, and nothing but whitespace
IsEmptyCommand(text, prefix) ==
    /\ HasPrefixAndSpace(text, prefix)
    /\ \A i \in (Len(prefix) + 2)..Len(text) : text[i] \in Whitespace

\* C18: a message that is the prefix, a space and only whitespace is handled
\* as a command with the empty task: with ack off run_agent is called with
\* the empty string at once; with ack on the in-progress notice for the
\* empty task is sent first and run_agent is then called with the empty
\* string. It is neither ignored nor answered with the usage message.
C18_EmptyTaskForwarded ==
    (parse_out.pc # "none" /\ IsEmptyCommand(parse_in, command_prefix)) =>
        LET t == parse_out.trace
        IN  /\ t # <<>>
            /\ t[1].op = "command"
            /\ ~ack => /\ parse_out.pc = "await_agent"
                       /\ Len(t) = 2
            /\ ack => \/ parse_out.pc = "await_working" /\ Len(t) = 1
                      \/ /\ parse_out.pc = "await_agent"
                         /\ Len(t) = 3
                         /\ t[2].op = "send_working"
                         /\ t[2].arg = <<"<@", "U1", ">", " I'm working on: *",
                                         "*\nThis may take a few minutes...">>
            /\ parse_out.pc = "await_agent" =>
                  /\ t[Len(t)].op = "run_agent"
                  /\ t[Len(t)].arg = <<>>

\* C18, witness: with ack on, a prefix followed by spaces and a tab has got
\* its notice and its run_agent call with the empty task
C18_Witness ==
    /\ ack
    /\ IsEmptyCommand(parse_in, command_prefix)
    /\ Len(parse_in) > Len(command_prefix) + 2
    /\ parse_out.pc = "await_agent"
    /\ parse_out.trace[Len(parse_out.trace)].arg = <<>>


\* C19: when agent.run has returned, the message of run_agent is the
\* extracted content if the agent reported done with content, and the fixed
\* fallback string if it reported done without content or did not report
\* done; and every result message that is sent is the mention of the user,
\* the label "Task completed:" and the message run_agent returned.
C19_ResultExtraction ==
    \A e \in Envelopes :
        /\ inv[e].pc = "await_result" =>
             /\ inv[e].last_out = "content" =>
                  inv[e].agent_message = <<"Top story: X">>
             /\ inv[e].last_out \in {"no_content", "not_done"} =>
                  inv[e].agent_message =
                    <<"Task completed, but no specific result was returned.">>
             /\ LastCall(e).op = "run_agent_return"
             /\ LastCall(e).arg = inv[e].agent_message
        /\ \A j \in Positions(e, "send_result") :
             /\ j > 1
             /\ inv[e].trace[j - 1].op = "run_agent_return"
             /\ inv[e].trace[j].arg =
                  <<"<@", inv[e].req.event.user, ">", " Task completed:\n\n">>
                    \o inv[e].trace[j - 1].arg

\* C19, witness: the result message with the fallback string has been posted
C19_Witness ==
    \E e \in Envelopes :
        /\ inv[e].pc = "done"
        /\ inv[e].last_out = "ok"
        /\ LastCall(e).op = "send_result"
        /\ LastCall(e).arg =
             <<"<@", "U1", ">", " Task completed:\n\n",
               "Task completed, but no specific result was returned.">>


\* the invocation of e in state i is between its delivery and its end
InFlight(i, e) == i[e].pc \notin {"idle", "done", "raised"}

\* the invocations that have called run_agent
Runs(i) == {e \in Envelopes : i[e].run # NoRun}

====
